---- MODULE Spec2Model ----
(***************************************************************************)
(* Model of swift/codegen/lib/schema/schema.py: the schema loader, the     *)
(* class builder, the grouped topological sorter, the property namer and   *)
(* the doc normalizer.                                                     *)
(*                                                                         *)
(* Python strings are sequences of code points, so that comparison         *)
(* (sorted), strip/rstrip, islower and startswith are computed as Python   *)
(* computes them.  An optional value is a sequence of length 0 (None) or 1.*)
(***************************************************************************)
EXTENDS Integers, Sequences, FiniteSets, TLC

VARIABLES pc,        \* position of the modelled call
          doc,       \* split_doc: the input text
          docOut,    \* split_doc: the returned list of lines
          attrs,     \* _get_class: the __annotations__ items, in order
          props,     \* _get_class: the properties built from attrs
          objs,      \* the class objects the schema module created, in creation order
          moddict,   \* m.__dict__: the module's keys in insertion order, with their values
          idx,       \* load: number of m.__dict__ items already iterated
          known,     \* load: the known set
          classes,   \* load: the classes dict, in insertion order
          err,       \* the failure load ended with, "" while there is none
          schema     \* Schema.classes as returned, in iteration order

vars == <<pc, doc, docOut, attrs, props, objs, moddict, idx, known, classes, err, schema>>

----------------------------------------------------------------------------
(* Strings *)

None == <<>>
Some(x) == <<x>>

\* the character rstrip("_") removes
UNDERSCORE == 95

\* the characters str.strip, str.lstrip and str.rstrip remove when called without
\* argument (str.isspace)
Whitespace ==
    {9, 10, 11, 12, 13, 28, 29, 30, 31, 32, 133, 160, 5760, 8232, 8233, 8239, 8287, 12288}
    \cup 8192..8202

\* the line boundaries of str.splitlines; \r\n counts as one
LineBreaks == {10, 11, 12, 13, 28, 29, 30, 133, 8232, 8233}

Min(S) == CHOOSE x \in S : \A y \in S : x <= y

SeqToSet(s) == {s[i] : i \in 1..Len(s)}

\* all sequences over S of length at most n
SeqsUpTo(S, n) == UNION {[1..k -> S] : k \in 0..n}

RECURSIVE LStrip(_)
LStrip(s) == IF s # <<>> /\ Head(s) \in Whitespace THEN LStrip(Tail(s)) ELSE s

RECURSIVE RStrip(_)
RStrip(s) ==
    IF s # <<>> /\ s[Len(s)] \in Whitespace THEN RStrip(SubSeq(s, 1, Len(s) - 1)) ELSE s

Strip(s) == RStrip(LStrip(s))

\* s[n:]
DropFirst(s, n) == SubSeq(s, n + 1, Len(s))

RECURSIVE SplitAcc(_, _, _)
SplitAcc(s, cur, acc) ==
    IF s = <<>> THEN (IF cur = <<>> THEN acc ELSE Append(acc, cur))
    ELSE IF Head(s) = 13 /\ Len(s) >= 2 /\ s[2] = 10
         THEN SplitAcc(Tail(Tail(s)), <<>>, Append(acc, cur))
    ELSE IF Head(s) \in LineBreaks THEN SplitAcc(Tail(s), <<>>, Append(acc, cur))
    ELSE SplitAcc(Tail(s), Append(cur, Head(s)), acc)

\* str.splitlines: no empty last line after a final line break
SplitLines(s) == SplitAcc(s, <<>>, <<>>)

\* lexicographic order of Python strings and lists (<)
RECURSIVE LexLess(_, _)
LexLess(a, b) ==
    IF b = <<>> THEN FALSE
    ELSE IF a = <<>> THEN TRUE
    ELSE IF Head(a) # Head(b) THEN Head(a) < Head(b)
    ELSE LexLess(Tail(a), Tail(b))

----------------------------------------------------------------------------
(* split_doc *)

RECURSIVE PopBlankTail(_)
PopBlankTail(t) ==
    IF t # <<>> /\ t[Len(t)] = <<>> THEN PopBlankTail(SubSeq(t, 1, Len(t) - 1)) ELSE t

RECURSIVE PopBlankHead(_)
PopBlankHead(t) == IF t # <<>> /\ Head(t) = <<>> THEN PopBlankHead(Tail(t)) ELSE t

\* min(indents) taken over the wrong lines: the blank ones count too
IndentsAll(rest) == {Len(rest[i]) - Len(LStrip(rest[i])) : i \in 1..Len(rest)}

\* the indents list: one entry per line after the first that is not blank
Indents(rest) ==
    {Len(rest[i]) - Len(LStrip(rest[i])) : i \in {j \in 1..Len(rest) : LStrip(rest[j]) # <<>>}}

SplitDoc(d) ==
    IF d = <<>> THEN <<>>
    ELSE LET lines == SplitLines(d)
             rest == Tail(lines)
             indents == Indents(rest)
             first == <<Strip(Head(lines))>>
             trimmed == IF indents # {}
                        THEN first \o [i \in 1..Len(rest) |->
                                          RStrip(DropFirst(rest[i], Min(indents)))]
                        ELSE first
         IN PopBlankHead(PopBlankTail(trimmed))

\* the texts split_doc is applied to
MaxDocLen == 5
\* space, tab, \n, \r, x
DocChars == {32, 9, 10, 13, 120}

Sample1 == <<83, 117, 109, 109, 97, 114, 121, 10, 32, 32, 32, 32, 108, 105, 110, 101, 32,
             111, 110, 101, 10, 32, 32, 32, 32, 108, 105, 110, 101, 32, 116, 119, 111>>
Sample2 == <<83, 117, 109, 109, 97, 114, 121, 10, 10, 32, 32, 32, 10, 32, 32, 105, 110,
             100, 101, 110, 116, 101, 100>>
StrSummary == <<83, 117, 109, 109, 97, 114, 121>>
StrLineOne == <<108, 105, 110, 101, 32, 111, 110, 101>>
StrLineTwo == <<108, 105, 110, 101, 32, 116, 119, 111>>
StrIndented == <<105, 110, 100, 101, 110, 116, 101, 100>>

DocInputs == SeqsUpTo(DocChars, MaxDocLen) \cup {Sample1, Sample2}

InitDoc ==
    /\ pc = "split_doc"
    /\ doc \in DocInputs
    /\ docOut = <<>>
    /\ attrs = <<>> /\ props = <<>>
    /\ objs = <<>> /\ moddict = <<>> /\ idx = 0 /\ known = {} /\ classes = <<>>
    /\ err = "" /\ schema = <<>>

CallSplitDoc ==
    /\ pc = "split_doc"
    /\ docOut' = SplitDoc(doc)
    /\ pc' = "returned"
    /\ UNCHANGED <<doc, attrs, props, objs, moddict, idx, known, classes, err, schema>>

NextDoc == CallSplitDoc

SpecDoc == InitDoc /\ [][NextDoc]_vars

----------------------------------------------------------------------------
(* Property, _make_property, PropertyModifier.__ror__, _PropertyNamer *)

\* str.rstrip("_"): every trailing underscore goes
RECURSIVE RStripUnderscore(_)
RStripUnderscore(s) ==
    IF s # <<>> /\ s[Len(s)] = UNDERSCORE
    THEN RStripUnderscore(SubSeq(s, 1, Len(s) - 1)) ELSE s

StrInt == <<105, 110, 116>>
StrString == <<115, 116, 114, 105, 110, 103>>
StrBoolean == <<98, 111, 111, 108, 101, 97, 110>>

\* A specifier (the annotation's value) is a type name, the predicate marker, an
\* already built Property object (identified by ref) or anything else.
TypeSpec(t) == [tag |-> "type", type |-> t, ref |-> 0]
PredicateMarker == [tag |-> "predicate", type |-> <<>>, ref |-> 0]
PropertySpec(r) == [tag |-> "property", type |-> StrInt, ref |-> r]
OtherSpec == [tag |-> "other", type |-> <<>>, ref |-> 0]

\* Property(kind, name, type); name and type are optional
Property(kind, name, type) == [kind |-> kind, name |-> name, type |-> type]

\* _make_property fails with Error("Illegal property specifier ...")
IllegalSpecifier(a) == a.tag = "other"

\* _make_property(a), before the modifier runs.  A Property given as specifier is
\* returned as it is (here: an OPTIONAL property of type int, not yet named).
MakeProperty(a) ==
    CASE a.tag = "type" -> Property("SINGLE", None, Some(a.type))
      [] a.tag = "predicate" -> Property("PREDICATE", None, None)
      [] OTHER -> Property("OPTIONAL", None, Some(a.type))

\* _PropertyNamer(n).modify(prop): prop.name = n.rstrip("_")
NamerModify(prop, n) == [prop EXCEPT !.name = Some(RStripUnderscore(n))]

\* [a | _PropertyNamer(n) for n, a in annotations.items()], read after the
\* comprehension has finished.  modify assigns in place, so a Property object that
\* is the specifier of several annotations carries the name given last.
GetProperties(an) ==
    [i \in 1..Len(an) |->
        IF an[i].a.tag = "property"
        THEN LET same == {j \in 1..Len(an) : an[j].a = an[i].a}
                 last == CHOOSE j \in same : \A k \in same : k <= j
             IN NamerModify(MakeProperty(an[i].a), an[last].n)
        ELSE NamerModify(MakeProperty(an[i].a), an[i].n)]

HasIllegalSpecifier(an) == \E i \in 1..Len(an) : IllegalSpecifier(an[i].a)

\* the attribute lists _get_class is applied to: declared names are the keys of a
\* dict, hence pairwise distinct
MaxAttrs == 2
MaxNameLen == 2
\* names made of x and _
AttrNames == SeqsUpTo({120, 95}, MaxNameLen) \ {<<>>}
AttrSpecs == {TypeSpec(StrInt), PredicateMarker, PropertySpec(1), OtherSpec}
AttrLists ==
    {an \in SeqsUpTo([n : AttrNames, a : AttrSpecs], MaxAttrs) :
        \A i, j \in 1..Len(an) : i # j => an[i].n # an[j].n}

InitProps ==
    /\ pc = "properties"
    /\ attrs \in AttrLists
    /\ props = <<>>
    /\ doc = <<>> /\ docOut = <<>>
    /\ objs = <<>> /\ moddict = <<>> /\ idx = 0 /\ known = {} /\ classes = <<>>
    /\ err = "" /\ schema = <<>>

BuildProperties ==
    /\ pc = "properties"
    /\ IF HasIllegalSpecifier(attrs)
       THEN pc' = "failed" /\ err' = "IllegalSpecifier" /\ props' = props
       ELSE pc' = "returned" /\ err' = err /\ props' = GetProperties(attrs)
    /\ UNCHANGED <<doc, docOut, attrs, objs, moddict, idx, known, classes, schema>>

NextProps == BuildProperties

SpecProps == InitProps /\ [][NextProps]_vars

----------------------------------------------------------------------------
(* The schema module: the class objects it created and its __dict__ *)

NmA == <<65>>
NmB == <<66>>
NmC == <<67>>
NmLower == <<97>>
NmOpt == <<79, 112, 116>>
NmUnknown == <<85>>
GrpAB == <<97, 98>>
GrpB == <<98>>

\* hasattr(defs, name): the names swift.codegen.lib.schema.defs defines
DefsNames == {NmOpt}
IsReserved(name) == name \in DefsNames

\* name[0].islower()
FirstIsLower(name) == name # <<>> /\ Head(name) >= 97 /\ Head(name) <= 122

\* name.startswith("__")
IsDunder(name) == Len(name) >= 2 /\ name[1] = UNDERSCORE /\ name[2] = UNDERSCORE

\* IpaInfo(from_class, on_arguments); on_arguments holds the dict's values
IpaInfo(from, args) == [from_class |-> from, on_arguments |-> args]

\* dict: a sequence of [key, val] in insertion order.  d[k] = v keeps the place of
\* a key that is already there.
DictKeys(d) == {d[i].key : i \in 1..Len(d)}
DictPos(d, k) == CHOOSE i \in 1..Len(d) : d[i].key = k
DictGet(d, k) == d[DictPos(d, k)].val
DictSet(d, k, v) ==
    IF k \in DictKeys(d) THEN [d EXCEPT ![DictPos(d, k)].val = v]
    ELSE Append(d, [key |-> k, val |-> v])

\* Python's C3 linearization merge; <<FALSE, ..>> when no consistent order exists
\* (the class statement then raises TypeError and no class is created)
RECURSIVE C3Merge(_)
C3Merge(ls) ==
    LET ne == SelectSeq(ls, LAMBDA l : l # <<>>)
    IN IF ne = <<>> THEN <<TRUE, <<>>>>
       ELSE LET good == {i \in 1..Len(ne) :
                            \A j \in 1..Len(ne) : Head(ne[i]) \notin SeqToSet(Tail(ne[j]))}
            IN IF good = {} THEN <<FALSE, <<>>>>
               ELSE LET h == Head(ne[Min(good)])
                        r == C3Merge([k \in 1..Len(ne) |->
                                        IF Head(ne[k]) = h THEN Tail(ne[k]) ELSE ne[k]])
                    IN <<r[1], <<h>> \o r[2]>>

\* cls.__mro__ (without object) of a class created as object number self
MroOf(self, bases) ==
    LET r == C3Merge([i \in 1..Len(bases) |-> objs[bases[i]].mro] \o <<bases>>)
    IN <<r[1], <<self>> \o r[2]>>

\* the builtin int, which a class of the module may name as base
BuiltinInt ==
    [name |-> StrInt, bases |-> <<>>, own |-> None, annots |-> <<>>, ipa |-> None,
     mro |-> <<1>>]

\* class name(bases): with its own _group (when decorated), __annotations__, _ipa
DefineClass(name, bases, own, annots, ipa) ==
    /\ pc = "define"
    /\ \E mro \in {MroOf(Len(objs) + 1, bases)} :
        /\ mro[1]
        \* a class object the module no longer reaches may or may not have been
        \* collected; a name is rebound only by a class that derives from its old value
        /\ name \in DictKeys(moddict) =>
              (DictGet(moddict, name) = 0 \/ DictGet(moddict, name) \in SeqToSet(mro[2]))
        /\ objs' = Append(objs, [name |-> name, bases |-> bases, own |-> own,
                                 annots |-> annots, ipa |-> ipa, mro |-> mro[2]])
        /\ moddict' = DictSet(moddict, name, Len(objs) + 1)
    /\ UNCHANGED <<pc, doc, docOut, attrs, props, idx, known, classes, err, schema>>

\* getattr(cls, "_group", <absent>): the first class of the MRO that sets _group
GroupAttr(o) ==
    LET m == objs[o].mro
        having == {i \in 1..Len(m) : objs[m[i]].own # None}
    IN IF having = {} THEN None ELSE objs[m[Min(having)]].own

\* getattr(cls, "_group", "")
GroupOf(o) == IF GroupAttr(o) = None THEN <<>> ELSE GroupAttr(o)[1]

\* the mixed-groups test with every base counted, an ungrouped one as ""
BaseGroupsDefaulted(o) == {GroupOf(objs[o].bases[i]) : i \in 1..Len(objs[o].bases)}

\* {b._group for b in cls.__bases__ if hasattr(b, "_group")}
BaseGroups(o) ==
    {GroupAttr(b)[1] : b \in {c \in SeqToSet(objs[o].bases) : GroupAttr(c) # None}}

\* {d.__name__ for d in cls.__subclasses__()}
DerivedNames(o) ==
    {objs[d].name : d \in {c \in 1..Len(objs) : o \in SeqToSet(objs[c].bases)}}

\* Class(...) as _get_class builds it from a class object
GetClass(o) ==
    [name |-> objs[o].name,
     bases |-> [i \in 1..Len(objs[o].bases) |-> objs[objs[o].bases[i]].name],
     derived |-> DerivedNames(o),
     group |-> GroupOf(o),
     ipa |-> objs[o].ipa,
     properties |-> GetProperties(objs[o].annots)]

\* the Error _get_class raises for a value of the module, "" when it returns
GetClassError(v) ==
    IF v = 0 THEN "OnlyClassDefinitions"
    ELSE IF FirstIsLower(objs[v].name) THEN "NotCapitalized"
    ELSE IF Cardinality(BaseGroups(v)) > 1 THEN "MixedGroups"
    ELSE IF HasIllegalSpecifier(objs[v].annots) THEN "IllegalSpecifier"
    ELSE ""

\* every t that Class.check_types hands to _check_type (None is let through there)
TypeRefs(cls) ==
    SeqToSet(cls.bases) \cup cls.derived
    \cup UNION {SeqToSet(cls.properties[i].type) : i \in 1..Len(cls.properties)}
    \cup (IF cls.ipa = None THEN {}
          ELSE SeqToSet(cls.ipa[1].from_class)
               \cup (IF cls.ipa[1].on_arguments = None THEN {}
                     ELSE SeqToSet(cls.ipa[1].on_arguments[1])))

\* cls.check_types(known) raises Error("Unknown type ...")
CheckTypesFails(cls, kn) == \E t \in TypeRefs(cls) : t \notin kn

\* `classes` in `if classes and not cls.bases`
NonEmpty(cs) == cs # <<>>

Primitives == {StrInt, StrString, StrBoolean}

----------------------------------------------------------------------------
(* toposort_flatten (the toposort package) and _toposort_classes_by_group *)

\* a set of strings as the list sorted(...) makes of it, turned around
RECURSIVE SortedDescending(_)
SortedDescending(S) ==
    IF S = {} THEN <<>>
    ELSE LET m == CHOOSE x \in S : \A y \in S \ {x} : LexLess(y, x)
         IN <<m>> \o SortedDescending(S \ {m})

\* sorted(S) for a set of strings
RECURSIVE Sorted(_)
Sorted(S) ==
    IF S = {} THEN <<>>
    ELSE LET m == CHOOSE x \in S : \A y \in S \ {x} : LexLess(x, y)
         IN <<m>> \o Sorted(S \ {m})

\* toposort's loop: each round yields the items without dependencies left and drops
\* them from the others; it stops when a round finds none
RECURSIVE ToposortLevels(_, _)
ToposortLevels(items, deps) ==
    LET ordered == {n \in items : deps[n] = {}}
        rest == items \ ordered
    IN IF ordered = {} THEN <<>>
       ELSE <<ordered>> \o ToposortLevels(rest, [n \in rest |-> deps[n] \ ordered])

RECURSIVE FlattenSorted(_)
FlattenSorted(levels) ==
    IF levels = <<>> THEN <<>> ELSE Sorted(Head(levels)) \o FlattenSorted(Tail(levels))

\* toposort_flatten(data) with sort=True.  toposort copies data with the
\* self-dependencies discarded, gives every item that is only depended upon an
\* empty dependency set, and raises CircularDependencyError when items are left
\* after the loop (ok = FALSE).
ToposortFlatten(data) ==
    LET keys == DictKeys(data)
        all == keys \cup UNION {SeqToSet(data[i].val) : i \in 1..Len(data)}
        deps == [n \in all |-> IF n \in keys THEN SeqToSet(DictGet(data, n)) \ {n} ELSE {}]
        levels == ToposortLevels(all, deps)
    IN [ok |-> UNION {levels[i] : i \in 1..Len(levels)} = all,
        order |-> FlattenSorted(levels)]

\* groups[group]: the names of the classes of the group, in the order of classes
Grouped(cs, group) ==
    LET of == SelectSeq(cs, LAMBDA e : e.val.group = group)
    IN [i \in 1..Len(of) |-> of[i].key]

\* inheritance = {name: classes[name].bases for name in grouped}
Inheritance(cs, grouped) ==
    [i \in 1..Len(grouped) |-> [key |-> grouped[i], val |-> DictGet(cs, grouped[i]).bases]]

\* ret kept as a list of pairs: a name toposort yields twice is entered twice
RetAppend(ret, name, cls) == Append(ret, [key |-> name, val |-> cls])

\* ret[name] = classes[name]
RetSet(ret, name, cls) == DictSet(ret, name, cls)

RECURSIVE RetSetAll(_, _, _)
RetSetAll(ret, names, cs) ==
    IF names = <<>> THEN ret
    ELSE RetSetAll(RetSet(ret, Head(names), DictGet(cs, Head(names))), Tail(names), cs)

\* the loop over sorted(groups.items()); gs are the group tags still to do.
\* classes[name] raises KeyError for a name toposort yields that is no key.
RECURSIVE SortGroups(_, _, _)
SortGroups(cs, gs, ret) ==
    IF gs = <<>> THEN [err |-> "", ret |-> ret]
    ELSE LET t == ToposortFlatten(Inheritance(cs, Grouped(cs, Head(gs))))
         IN IF ~t.ok THEN [err |-> "CircularDependencyError", ret |-> ret]
            ELSE IF \E i \in 1..Len(t.order) : t.order[i] \notin DictKeys(cs)
                 THEN [err |-> "KeyError", ret |-> ret]
            ELSE SortGroups(cs, Tail(gs), RetSetAll(ret, t.order, cs))

ToposortClassesByGroup(cs) ==
    SortGroups(cs, Sorted({cs[i].val.group : i \in 1..Len(cs)}), <<>>)

----------------------------------------------------------------------------
(* load *)

\* bounds of the schema modules load is applied to
MaxClasses == 3
MaxBases == 2
MaxTyped == 2

ClassNames == {NmA, NmB, NmC}
GroupChoices == {None, Some(GrpAB), Some(GrpB)}

\* lists of at most n distinct class objects out of S
BaseLists(S, n) ==
    {b \in SeqsUpTo(S, n) : \A i, j \in 1..Len(b) : i # j => b[i] # b[j]}

TypedNames == {NmA, NmB, NmLower, NmOpt}
\* the attribute x_
AttrX == <<120, 95>>
RefChoices ==
    {[annots |-> <<>>, ipa |-> None],
     [annots |-> <<[n |-> AttrX, a |-> PredicateMarker]>>, ipa |-> None],
     [annots |-> <<[n |-> AttrX, a |-> OtherSpec]>>, ipa |-> None]}
    \cup {[annots |-> <<[n |-> AttrX, a |-> TypeSpec(t)]>>, ipa |-> None] :
            t \in {StrInt, NmOpt, NmUnknown}}
    \cup {[annots |-> <<>>, ipa |-> Some(IpaInfo(Some(t), None))] : t \in {NmA, NmUnknown}}
    \cup {[annots |-> <<>>, ipa |-> Some(IpaInfo(None, Some(<<t>>)))] :
            t \in {StrInt, NmUnknown}}

InitLoad ==
    /\ pc = "define"
    /\ objs = <<BuiltinInt>>
    /\ moddict = <<>> /\ idx = 0 /\ known = {} /\ classes = <<>>
    /\ err = "" /\ schema = <<>>
    /\ doc = <<>> /\ docOut = <<>> /\ attrs = <<>> /\ props = <<>>

\* a class statement of a schema that groups its classes
Declare ==
    /\ Len(objs) - 1 < MaxClasses
    /\ \E name \in ClassNames, bases \in BaseLists(2..Len(objs), MaxBases),
          own \in GroupChoices :
            DefineClass(name, bases, own, <<>>, None)

\* a class statement of a schema whose classes carry properties and IPA metadata
DeclareTyped ==
    /\ Len(objs) - 1 < MaxTyped
    /\ \E name \in TypedNames, bases \in BaseLists(1..Len(objs), 1), ref \in RefChoices :
            DefineClass(name, bases, None, ref.annots, ref.ipa)

\* a module-level assignment of something that is no class
AssignValue ==
    /\ pc = "define"
    /\ Len(moddict) < MaxTyped
    /\ \E name \in {NmA, NmB} :
        /\ name \notin DictKeys(moddict)
        /\ moddict' = DictSet(moddict, name, 0)
    /\ UNCHANGED <<pc, doc, docOut, attrs, props, objs, idx, known, classes, err, schema>>

\* known, as load fills it before its loop
Known == Primitives \cup {k \in DictKeys(moddict) : ~IsDunder(k)}

\* `for name, data in m.__dict__.items()` from item i + 1 on, cs being the classes
\* built so far: the loop ends after the last item or at the first Error
RECURSIVE LoadLoop(_, _)
LoadLoop(i, cs) ==
    IF i = Len(moddict) THEN [idx |-> i, classes |-> cs, err |-> ""]
    ELSE LET name == moddict[i + 1].key
             data == moddict[i + 1].val
             e == GetClassError(data)
             cls == GetClass(data)
             failure == IF e # "" THEN e
                        ELSE IF NonEmpty(cs) /\ cls.bases = <<>> THEN "SecondRoot"
                        ELSE IF CheckTypesFails(cls, Known) THEN "UnknownType"
                        ELSE ""
         IN IF IsReserved(name) \/ IsDunder(name) THEN LoadLoop(i + 1, cs)
            ELSE IF failure # "" THEN [idx |-> i, classes |-> cs, err |-> failure]
            ELSE LoadLoop(i + 1, DictSet(cs, name, cls))

\* load(m): the loop, then
\* return Schema(includes=includes, classes=_toposort_classes_by_group(classes)).
\* After a failure idx is the number of items that were iterated without one.
Load ==
    /\ pc = "define"
    /\ known' = Known
    /\ \E l \in {LoadLoop(0, <<>>)} :
        /\ idx' = l.idx
        /\ classes' = l.classes
        /\ IF l.err # "" THEN pc' = "failed" /\ err' = l.err /\ schema' = schema
           ELSE \E r \in {ToposortClassesByGroup(l.classes)} :
                    IF r.err # "" THEN pc' = "failed" /\ err' = r.err /\ schema' = schema
                    ELSE pc' = "done" /\ err' = err /\ schema' = r.ret
    /\ UNCHANGED <<doc, docOut, attrs, props, objs, moddict>>

Next == Declare \/ Load

Spec == InitLoad /\ [][Next]_vars

NextTypes == DeclareTyped \/ AssignValue \/ Load

SpecTypes == InitLoad /\ [][NextTypes]_vars

----------------------------------------------------------------------------
(* Properties of load and of _toposort_classes_by_group *)

Max(S) == CHOOSE x \in S : \A y \in S : y <= x

\* the names a class lists as bases, {} for a name that is no class
BaseNames(cs, n) == IF n \in DictKeys(cs) THEN SeqToSet(DictGet(cs, n).bases) ELSE {}

RECURSIVE BaseClosure(_, _)
BaseClosure(cs, S) ==
    LET T == S \cup UNION {BaseNames(cs, n) : n \in S}
    IN IF T = S THEN S ELSE BaseClosure(cs, T)

\* the direct and transitive bases of a class
Ancestors(cs, n) == BaseClosure(cs, BaseNames(cs, n))

\* a class of another group lists n as base
ListedAcrossGroups(cs, n) ==
    \E i \in 1..Len(cs) :
        /\ n \in SeqToSet(cs[i].val.bases)
        /\ cs[i].val.group # DictGet(cs, n).group

\* the length of the longest chain of bases below n, counted in the dependency
\* graph of n's own group: bases of a class of another group are not followed
RECURSIVE Level(_, _, _)
Level(cs, g, n) ==
    LET deps == IF n \in DictKeys(cs) /\ DictGet(cs, n).group = g
                THEN BaseNames(cs, n) \ {n} ELSE {}
    IN IF deps = {} THEN 0 ELSE 1 + Max({Level(cs, g, m) : m \in deps})

\* C1: in a returned schema, a class comes after every class of its own group that
\* it lists as base.
C1_BasesBeforeDerived ==
    pc = "done" =>
        \A i, j \in 1..Len(schema) :
            (/\ i # j
             /\ schema[i].val.group = schema[j].val.group
             /\ schema[i].key \in SeqToSet(schema[j].val.bases)) => i < j

\* C2: in a returned schema, the group tags read in iteration order never decrease.
C2_GroupsAscending ==
    pc = "done" =>
        \A i, j \in 1..Len(schema) :
            i < j => ~LexLess(schema[j].val.group, schema[i].val.group)

\* C3: load raises the second-root Error only when a class without bases was
\* already built: the first class without bases is accepted wherever it stands.
C3_FirstRootAccepted ==
    (pc = "failed" /\ err = "SecondRoot") =>
        \E i \in 1..Len(classes) : classes[i].val.bases = <<>>

\* C4: every type a class of a returned schema refers to (bases, derived, property
\* types, IPA references) is a primitive or a class of that schema.
C4_KnownTypeClosure ==
    pc = "done" =>
        \A i \in 1..Len(schema) :
            TypeRefs(schema[i].val) \subseteq Primitives \cup DictKeys(schema)

\* C5 as stated: no class of a returned schema has a group that differs from the
\* group of a class it lists as base (load fails with the mixed-group Error instead).
C5_NoCrossGroupBase ==
    pc = "done" =>
        \A i, j \in 1..Len(schema) :
            schema[j].key \in SeqToSet(schema[i].val.bases)
                => schema[i].val.group = schema[j].val.group

\* two direct bases of class object o carry a _group attribute with different values
TwoGroupedBasesDiffer(o) ==
    \E b1, b2 \in SeqToSet(objs[o].bases) :
        /\ GroupAttr(b1) # None
        /\ GroupAttr(b2) # None
        /\ GroupAttr(b1) # GroupAttr(b2)

\* C5 as amended: the mixed-group Error is raised only for a class two of whose
\* direct bases carry different _group attributes, and no class that was built has
\* two such bases; bases without the attribute and the class's own group play no part.
C5_MixedGroupsOfBases ==
    /\ (pc = "failed" /\ err = "MixedGroups") => TwoGroupedBasesDiffer(moddict[idx + 1].val)
    /\ \A i \in 1..Len(classes) : ~TwoGroupedBasesDiffer(DictGet(moddict, classes[i].key))

\* load fails with the mixed-group Error on a class that sets a group of its own
C5_Witness ==
    /\ pc = "failed" /\ err = "MixedGroups"
    /\ objs[moddict[idx + 1].val].own # None

\* the failures that are an Error of schema.py
SchemaErrors ==
    {"OnlyClassDefinitions", "NotCapitalized", "MixedGroups", "IllegalSpecifier",
     "SecondRoot", "UnknownType"}

\* C6: every failure of load is an Error.
C6_OnlyErrorEscapes == pc = "failed" => err \in SchemaErrors

\* C9 as stated: two classes of one group of which neither is a direct or transitive
\* base of the other keep, in the returned order, the order they were declared in.
C9_TiesInDeclarationOrder ==
    pc = "done" =>
        \A i, j \in 1..Len(schema) :
            (/\ i < j
             /\ schema[i].val.group = schema[j].val.group
             /\ schema[i].key \notin Ancestors(classes, schema[j].key)
             /\ schema[j].key \notin Ancestors(classes, schema[i].key))
                => DictPos(classes, schema[i].key) < DictPos(classes, schema[j].key)

\* two different classes of one group, on the same level of the group's dependency
\* graph, neither listed as base by a class of another group
SameLevelPair(x, y) ==
    /\ x # y
    /\ DictGet(classes, x).group = DictGet(classes, y).group
    /\ Level(classes, DictGet(classes, x).group, x)
         = Level(classes, DictGet(classes, y).group, y)
    /\ ~ListedAcrossGroups(classes, x)
    /\ ~ListedAcrossGroups(classes, y)

\* C9 as amended: two classes of one group that stand on the same level of the
\* group's dependency graph, and that no class of another group lists as base, are
\* returned in ascending order of their names.
C9_TiesInNameOrder ==
    pc = "done" =>
        \A x, y \in DictKeys(schema) :
            SameLevelPair(x, y) =>
                (DictPos(schema, x) < DictPos(schema, y) <=> LexLess(x, y))

\* a returned schema in which two classes of one level were declared against the
\* order of their names and are returned in the order of their names
C9_Witness ==
    /\ pc = "done"
    /\ \A n \in DictKeys(classes) : n \notin BaseNames(classes, n)
    /\ \E x, y \in DictKeys(schema) :
        /\ SameLevelPair(x, y)
        /\ LexLess(x, y)
        /\ DictPos(classes, y) < DictPos(classes, x)
        /\ DictPos(schema, x) < DictPos(schema, y)

\* C10: the returned mapping has the names of the input mapping, each once and with
\* the Class it had in the input.
C10_OnlyReorders ==
    pc = "done" =>
        /\ Len(schema) = Len(classes)
        /\ DictKeys(schema) = DictKeys(classes)
        /\ \A i \in 1..Len(schema) : schema[i].val = DictGet(classes, schema[i].key)

\* a returned schema of three classes, one listed as base across groups, whose
\* order differs from the order of the input mapping
C10_Witness ==
    /\ pc = "done"
    /\ Len(schema) >= 3
    /\ \E n \in DictKeys(classes) : ListedAcrossGroups(classes, n)
    /\ \E i \in 1..Len(schema) : schema[i].key # classes[i].key

----------------------------------------------------------------------------
(* Properties of _get_class's property list and of split_doc *)

\* C7: the properties built from attributes with pairwise distinct declared names
\* have pairwise distinct stored names, the i-th property coming from the i-th attribute.
C7_PropertyNamesUnique ==
    pc = "returned" /\ props # <<>> =>
        /\ Len(props) = Len(attrs)
        /\ \A i, j \in 1..Len(props) : i # j => props[i].name # props[j].name

\* what the description of split_doc asks for: the first line stripped, then the
\* other lines without the common indent and without trailing whitespace, cut down
\* to the span from the first to the last line that is not empty
DocExpected(d) ==
    LET lines == SplitLines(d)
        n == Len(lines)
        lead(l) == Len(l) - Len(LStrip(l))
        nonblank == {i \in 2..n : Strip(lines[i]) # <<>>}
        indent == IF nonblank = {} THEN 0 ELSE Min({lead(lines[i]) : i \in nonblank})
        body == [i \in 1..n |-> IF i = 1 THEN Strip(lines[1])
                                ELSE RStrip(DropFirst(lines[i], indent))]
        kept == {i \in 1..n : body[i] # <<>>}
    IN IF kept = {} THEN <<>> ELSE SubSeq(body, Min(kept), Max(kept))

\* C8 as stated: split_doc returns the normalized lines, and on the two sample texts
\* the lists <<Summary, line one, line two>> and <<Summary, indented>>.
C8_SplitDocAsStated ==
    pc = "returned" =>
        /\ docOut = DocExpected(doc)
        /\ doc = Sample1 => docOut = <<StrSummary, StrLineOne, StrLineTwo>>
        /\ doc = Sample2 => docOut = <<StrSummary, StrIndented>>

\* C8 as amended: split_doc returns the normalized lines; blank lines between the
\* first and the last non-blank line stay, so the second sample text gives
\* <<Summary, "", "", indented>>.
C8_SplitDocKeepsInnerBlanks ==
    pc = "returned" =>
        /\ docOut = DocExpected(doc)
        /\ doc = Sample1 => docOut = <<StrSummary, StrLineOne, StrLineTwo>>
        /\ doc = Sample2 => docOut = <<StrSummary, <<>>, <<>>, StrIndented>>

\* split_doc has returned for the second sample text
C8_Witness ==
    /\ pc = "returned"
    /\ doc = Sample2
    /\ docOut = <<StrSummary, <<>>, <<>>, StrIndented>>

====
